---------------------------- MODULE Spec2Model ----------------------------
(***************************************************************************)
(* A model of src/index.py: the Pascal-subset pipeline                     *)
(*   Lexer -> Parser -> SymbolTableBuilder -> Interpreter                  *)
(* driven by main().  Texts are sequences of one-character strings,        *)
(* positions are 0-based as in the source (text[pos] is text[pos + 1]      *)
(* here).  Python values are tagged records; a float is kept as an exact   *)
(* fraction num/den in lowest terms.  A raised exception is recorded in    *)
(* exc and, as nothing in the source catches one, stops every activity.    *)
(***************************************************************************)
EXTENDS Integers, Sequences, FiniteSets, TLC

VARIABLES
    src,            \* the source under test: lexemes and the edited gap
    run,            \* 1: main() on the first text, 2: on the second text
    saved,          \* what the first run ended with
    text,           \* Lexer.text
    lexer,          \* Lexer.pos and Lexer.current_char
    lpc,            \* where the Lexer is: unborn, idle, scan, comment, ret
    ret,            \* the Token get_next_token returns
    calls,          \* history: number of get_next_token calls
    toks,           \* history: the tokens returned so far
    current_token,  \* Parser.current_token
    ctl,            \* Parser: the pending work of the recursive descent
    vals,           \* Parser: the results of the finished sub-parsers
    nextId,         \* identity of the next AST object
    tree,           \* main: tree
    main_pc,        \* main: the statement being executed
    symtab,         \* SymbolTable._symbols, in definition order
    sctl,           \* SymbolTableBuilder: the pending visits
    GLOBAL_SCOPE,   \* Interpreter.GLOBAL_SCOPE
    ictl,           \* Interpreter: the pending visits and operations
    ivals,          \* Interpreter: the values of the finished visits
    assigned,       \* history: <<name, value>> of every completed Assign
    exc             \* the exception raised, or "none"

vars == <<src, run, saved, text, lexer, lpc, ret, calls, toks, current_token,
          ctl, vals, nextId, tree, main_pc, symtab, sctl, GLOBAL_SCOPE, ictl,
          ivals, assigned, exc>>

lexvars   == <<text, lexer, lpc, ret, calls, toks>>
parsevars == <<current_token, ctl, vals, nextId, tree>>
symvars   == <<symtab, sctl>>
intvars   == <<GLOBAL_SCOPE, ictl, ivals, assigned>>
runvars   == <<src, run, saved>>

-----------------------------------------------------------------------------
(* Bounds of the model *)

MaxNum == 1
MaxStmts == 2
MaxLen == 3
MaxCalls == 4
MaxOverrun == 2

-----------------------------------------------------------------------------
(* Python values *)

None == "None"
PyNone == [py |-> "None"]
PyStr(s) == [py |-> "str", s |-> s]
PyInt(n) == [py |-> "int", n |-> n]

Abs(n) == IF n < 0 THEN -n ELSE n

RECURSIVE Gcd(_, _)
Gcd(a, b) == IF b = 0 THEN a ELSE Gcd(b, a % b)

\* a float, as the fraction n/d in lowest terms with d > 0
PyFloat(n, d) ==
    LET s == IF d < 0 THEN -1 ELSE 1
        g == Gcd(Abs(n), Abs(d))
    IN  [py |-> "float", num |-> (s * n) \div g, den |-> (s * d) \div g]

IsNumber(v) == v.py \in {"int", "float"}
Num_(v) == IF v.py = "int" THEN v.n ELSE v.num
Den_(v) == IF v.py = "int" THEN 1 ELSE v.den
IsZero(v) == Num_(v) = 0
BothInt(x, y) == x.py = "int" /\ y.py = "int"

\* floor of n/d for d > 0
Floor(n, d) == IF n >= 0 THEN n \div d ELSE -((-n + d - 1) \div d)

PyAdd(x, y) ==
    IF BothInt(x, y) THEN PyInt(x.n + y.n)
    ELSE PyFloat(Num_(x) * Den_(y) + Num_(y) * Den_(x), Den_(x) * Den_(y))
PySub(x, y) ==
    IF BothInt(x, y) THEN PyInt(x.n - y.n)
    ELSE PyFloat(Num_(x) * Den_(y) - Num_(y) * Den_(x), Den_(x) * Den_(y))
PyMul(x, y) ==
    IF BothInt(x, y) THEN PyInt(x.n * y.n)
    ELSE PyFloat(Num_(x) * Num_(y), Den_(x) * Den_(y))
\* x // y for y # 0: the floor of the quotient, an int for two ints
PyFloorDiv(x, y) ==
    LET n == Num_(x) * Den_(y)
        d == Den_(x) * Num_(y)
        q == IF d > 0 THEN Floor(n, d) ELSE Floor(-n, -d)
    IN  IF BothInt(x, y) THEN PyInt(q) ELSE PyFloat(q, 1)
\* float(x) / float(y) for y # 0
PyTrueDiv(x, y) == PyFloat(Num_(x) * Den_(y), Den_(x) * Num_(y))
PyNeg(x) == IF x.py = "int" THEN PyInt(-x.n) ELSE PyFloat(-x.num, x.den)
PyPos(x) == x

-----------------------------------------------------------------------------
(* Characters: str.isalpha, str.isdigit, str.isspace, str.isalnum *)

Upper == {"A","B","C","D","E","F","G","H","I","J","K","L","M",
          "N","O","P","Q","R","S","T","U","V","W","X","Y","Z"}
Lower == {"a","b","c","d","e","f","g","h","i","j","k","l","m",
          "n","o","p","q","r","s","t","u","v","w","x","y","z"}
DigitChars == <<"0","1","2","3","4","5","6","7","8","9">>
Digits == {DigitChars[i] : i \in 1..10}
Spaces == {" ", "\t", "\n", "\r"}

isalpha(c) == c \in Upper \cup Lower
isdigit(c) == c \in Digits
isspace(c) == c \in Spaces
isalnum(c) == isalpha(c) \/ isdigit(c)

DigitVal(c) == (CHOOSE i \in 1..10 : DigitChars[i] = c) - 1

RECURSIVE Pow10(_)
Pow10(k) == IF k = 0 THEN 1 ELSE 10 * Pow10(k - 1)

\* int(s) of a string of digits
RECURSIVE int(_)
int(s) == IF s = <<>> THEN 0
          ELSE 10 * int(SubSeq(s, 1, Len(s) - 1)) + DigitVal(s[Len(s)])

\* float(s) of digits "." digits
float(s) ==
    LET dot == CHOOSE i \in 1..Len(s) : s[i] = "."
        ip == SubSeq(s, 1, dot - 1)
        fp == SubSeq(s, dot + 1, Len(s))
    IN  PyFloat(int(ip) * Pow10(Len(fp)) + int(fp), Pow10(Len(fp)))

-----------------------------------------------------------------------------
(* Tokens *)

INTEGER == "INTEGER"
REAL == "REAL"
INTEGER_CONST == "INTEGER_CONST"
REAL_CONST == "REAL_CONST"
PLUS == "PLUS"
MINUS == "MINUS"
MUL == "MUL"
INTEGER_DIV == "INTEGER_DIV"
FLOAT_DIV == "FLOAT_DIV"
LPAREN == "LPAREN"
RPAREN == "RPAREN"
ID == "ID"
ASSIGN == "ASSIGN"
BEGIN == "BEGIN"
END == "END"
SEMI == "SEMI"
DOT == "DOT"
PROGRAM == "PROGRAM"
VAR == "VAR"
COLON == "COLON"
COMMA == "COMMA"
EOF == "EOF"
PROCEDURE == "PROCEDURE"

Token(type, value) == [type |-> type, value |-> value]
NoToken == [type |-> "unset", value |-> PyNone]

wPROGRAM == <<"P","R","O","G","R","A","M">>
wVAR == <<"V","A","R">>
wDIV == <<"D","I","V">>
wINTEGER == <<"I","N","T","E","G","E","R">>
wREAL == <<"R","E","A","L">>
wBEGIN == <<"B","E","G","I","N">>
wEND == <<"E","N","D">>
wPROCEDURE == <<"P","R","O","C","E","D","U","R","E">>

RESERVED_KEYWORDS ==
    { <<wPROGRAM, Token(PROGRAM, PyStr(wPROGRAM))>>,
      <<wVAR, Token(VAR, PyStr(wVAR))>>,
      <<wDIV, Token(INTEGER_DIV, PyStr(wDIV))>>,
      <<wINTEGER, Token(INTEGER, PyStr(wINTEGER))>>,
      <<wREAL, Token(REAL, PyStr(wREAL))>>,
      <<wBEGIN, Token(BEGIN, PyStr(wBEGIN))>>,
      <<wEND, Token(END, PyStr(wEND))>>,
      <<wPROCEDURE, Token(PROCEDURE, PyStr(wPROCEDURE))>> }

\* RESERVED_KEYWORDS.get(key, default)
RESERVED_KEYWORDS_get(key, default) ==
    IF \E e \in RESERVED_KEYWORDS : e[1] = key
    THEN (CHOOSE e \in RESERVED_KEYWORDS : e[1] = key)[2]
    ELSE default

-----------------------------------------------------------------------------
(* Lexer: the methods that always return, as operators on the pair          *)
(* [pos, current_char] of a Lexer over text t                               *)

Lexer_new(t) == [pos |-> 0, current_char |-> t[1]]

Lexer_advance(t, lx) ==
    LET p == lx.pos + 1
    IN  [pos |-> p,
         current_char |-> IF p > Len(t) - 1 THEN None ELSE t[p + 1]]

Lexer_peek(t, lx) ==
    LET peek_pos == lx.pos + 1
    IN  IF peek_pos > Len(t) - 1 THEN None ELSE t[peek_pos + 1]

RECURSIVE Lexer_skip_whitespace(_, _)
Lexer_skip_whitespace(t, lx) ==
    IF lx.current_char # None /\ isspace(lx.current_char)
    THEN Lexer_skip_whitespace(t, Lexer_advance(t, lx))
    ELSE lx

\* while current_char is not None and current_char.isdigit(): result += ...
RECURSIVE Lexer_digits(_, _, _)
Lexer_digits(t, lx, result) ==
    IF lx.current_char # None /\ isdigit(lx.current_char)
    THEN Lexer_digits(t, Lexer_advance(t, lx), Append(result, lx.current_char))
    ELSE [lexer |-> lx, result |-> result]

Lexer_number(t, lx) ==
    LET a == Lexer_digits(t, lx, <<>>)
    IN  IF a.lexer.current_char = "."
        THEN LET b == Lexer_digits(t, Lexer_advance(t, a.lexer),
                                   Append(a.result, "."))
             IN  [lexer |-> b.lexer, token |-> Token(REAL_CONST, float(b.result))]
        ELSE [lexer |-> a.lexer, token |-> Token(INTEGER_CONST, PyInt(int(a.result)))]

RECURSIVE Lexer_alnums(_, _, _)
Lexer_alnums(t, lx, result) ==
    IF lx.current_char # None /\ isalnum(lx.current_char)
    THEN Lexer_alnums(t, Lexer_advance(t, lx), Append(result, lx.current_char))
    ELSE [lexer |-> lx, result |-> result]

Lexer_id(t, lx) ==
    LET a == Lexer_alnums(t, lx, <<>>)
    IN  [lexer |-> a.lexer,
         token |-> RESERVED_KEYWORDS_get(a.result, Token(ID, PyStr(a.result)))]

\* the one-character tokens of get_next_token
SingleCharTokens ==
    { <<";", SEMI>>, <<".", DOT>>, <<",", COMMA>>, <<":", COLON>>,
      <<"+", PLUS>>, <<"-", MINUS>>, <<"*", MUL>>, <<"/", FLOAT_DIV>>,
      <<"(", LPAREN>>, <<")", RPAREN>> }
IsSingleChar(c) == \E e \in SingleCharTokens : e[1] = c
SingleCharToken(c) ==
    Token((CHOOSE e \in SingleCharTokens : e[1] = c)[2], PyStr(<<c>>))

\* which branch of get_next_token's loop the current character takes
Lexer_branch(t, lx) ==
    LET c == lx.current_char
    IN  IF c = None THEN "eof"
        ELSE IF isalpha(c) THEN "id"
        ELSE IF c = ":" /\ Lexer_peek(t, lx) = "=" THEN "assign"
        ELSE IF c \in {";", "."} THEN "single"
        ELSE IF isspace(c) THEN "space"
        ELSE IF isdigit(c) THEN "number"
        ELSE IF c = "{" THEN "comment"
        ELSE IF IsSingleChar(c) THEN "single"
        ELSE "error"

-----------------------------------------------------------------------------
(* Lexer: construction, and get_next_token one loop iteration at a time *)

Raise(e) == exc' = e

\* Lexer.__init__, called by main
Lexer_init ==
    /\ exc = "none" /\ main_pc = "Lexer"
    /\ IF text = <<>>
       THEN /\ Raise("IndexError")
            /\ UNCHANGED <<lexer, lpc, main_pc>>
       ELSE /\ lexer' = Lexer_new(text)
            /\ lpc' = "idle"
            /\ main_pc' = "Parser"
            /\ UNCHANGED exc
    /\ UNCHANGED <<runvars, text, ret, calls, toks, parsevars, symvars, intvars>>

LexAt(b) == exc = "none" /\ lpc = "scan" /\ Lexer_branch(text, lexer) = b

\* return token
Lexer_return(lx, token) ==
    /\ lexer' = lx
    /\ ret' = token
    /\ toks' = Append(toks, token)
    /\ lpc' = "ret"
    /\ UNCHANGED <<runvars, text, calls, parsevars, main_pc, symvars, intvars, exc>>

Lexer_continue(lx, pc) ==
    /\ lexer' = lx
    /\ lpc' = pc
    /\ UNCHANGED <<runvars, text, ret, calls, toks, parsevars, main_pc, symvars,
                   intvars, exc>>

get_next_token_eof ==
    /\ LexAt("eof")
    /\ Lexer_return(lexer, Token(EOF, PyNone))

get_next_token_id ==
    /\ LexAt("id")
    /\ LET r == Lexer_id(text, lexer) IN Lexer_return(r.lexer, r.token)

get_next_token_assign ==
    /\ LexAt("assign")
    /\ Lexer_return(Lexer_advance(text, Lexer_advance(text, lexer)),
                    Token(ASSIGN, PyStr(<<":", "=">>)))

get_next_token_single ==
    /\ LexAt("single")
    /\ Lexer_return(Lexer_advance(text, lexer), SingleCharToken(lexer.current_char))

get_next_token_space ==
    /\ LexAt("space")
    /\ Lexer_continue(Lexer_skip_whitespace(text, lexer), "scan")

get_next_token_number ==
    /\ LexAt("number")
    /\ LET r == Lexer_number(text, lexer) IN Lexer_return(r.lexer, r.token)

get_next_token_comment ==
    /\ LexAt("comment")
    /\ Lexer_continue(Lexer_advance(text, lexer), "comment")

get_next_token_error ==
    /\ LexAt("error")
    /\ Raise("Invalid character")
    /\ UNCHANGED <<runvars, lexvars, parsevars, main_pc, symvars, intvars>>

\* one iteration of skip_comment's loop; the scan past the end of the text
\* is followed for MaxOverrun positions
skip_comment_loop ==
    /\ exc = "none" /\ lpc = "comment"
    /\ lexer.current_char # "}"
    /\ lexer.pos < Len(text) + MaxOverrun
    /\ Lexer_continue(Lexer_advance(text, lexer), "comment")

\* a skip_comment that leaves the lexer on the closing brace
skip_comment_end_on_brace ==
    /\ exc = "none" /\ lpc = "comment"
    /\ lexer.current_char = "}"
    /\ Lexer_continue(lexer, "scan")

skip_comment_end ==
    /\ exc = "none" /\ lpc = "comment"
    /\ lexer.current_char = "}"
    /\ Lexer_continue(Lexer_advance(text, lexer), "scan")

\* a call of get_next_token
Lexer_call(frames) ==
    /\ lpc' = "scan"
    /\ calls' = calls + 1
    /\ ctl' = frames
    /\ UNCHANGED <<runvars, text, lexer, ret, toks, current_token, vals, nextId,
                   tree, symvars, intvars, exc>>

F(op) == [op |-> op]

\* self.current_token = self.lexer.get_next_token(): the assignment
token_ret ==
    /\ exc = "none" /\ lpc = "ret"
    /\ ctl # <<>> /\ Head(ctl).op = "token_ret"
    /\ current_token' = ret
    /\ lpc' = "idle"
    /\ ctl' = Tail(ctl)
    /\ UNCHANGED <<runvars, text, lexer, ret, calls, toks, vals, nextId, tree,
                   main_pc, symvars, intvars, exc>>

\* a client that asks a constructed Lexer for token after token
Client_get_next_token ==
    /\ exc = "none" /\ main_pc = "Parser" /\ lpc = "idle"
    /\ calls < MaxCalls
    /\ Lexer_call(<<F("token_ret")>>)
    /\ UNCHANGED main_pc

-----------------------------------------------------------------------------
(* The texts of the lexer-only specification *)

LexAlphabet == {"a", "1", ".", ":", "=", " ", "{", "}", ";", "$"}

RECURSIVE TextsOfLen(_)
TextsOfLen(n) ==
    IF n = 0 THEN {<<>>}
    ELSE {Append(t, c) : t \in TextsOfLen(n - 1), c \in LexAlphabet}

LexTexts == UNION {TextsOfLen(n) : n \in 0..MaxLen}

NoSource == [prog |-> <<>>, gap |-> 0, sep1 |-> <<>>, sep2 |-> <<>>]
NoSaved == [done |-> FALSE]

InitRun(t) ==
    /\ text = t
    /\ lexer = [pos |-> 0, current_char |-> None]
    /\ lpc = "unborn"
    /\ ret = NoToken
    /\ calls = 0
    /\ toks = <<>>
    /\ current_token = NoToken
    /\ ctl = <<>>
    /\ vals = <<>>
    /\ nextId = 1
    /\ tree = PyNone
    /\ main_pc = "Lexer"
    /\ symtab = <<>>
    /\ sctl = <<>>
    /\ GLOBAL_SCOPE = <<>>
    /\ ictl = <<>>
    /\ ivals = <<>>
    /\ assigned = <<>>
    /\ exc = "none"

InitLex ==
    /\ src = NoSource /\ run = 1 /\ saved = NoSaved
    /\ \E t \in LexTexts : InitRun(t)

get_next_token ==
    \/ get_next_token_eof
    \/ get_next_token_id
    \/ get_next_token_assign
    \/ get_next_token_single
    \/ get_next_token_space
    \/ get_next_token_number
    \/ get_next_token_comment
    \/ get_next_token_error
    \/ skip_comment_loop
    \/ skip_comment_end

NextLex == Lexer_init \/ Client_get_next_token \/ get_next_token \/ token_ret

LexSpec == InitLex /\ [][NextLex]_vars

-----------------------------------------------------------------------------
(* AST nodes: the fields of the source's classes, and the object's identity *)

BinOp(id, left, op, right) ==
    [node |-> "BinOp", id |-> id, left |-> left, token |-> op, op |-> op,
     right |-> right]
Num(id, token) ==
    [node |-> "Num", id |-> id, token |-> token, value |-> token.value]
UnaryOp(id, op, expr) ==
    [node |-> "UnaryOp", id |-> id, token |-> op, op |-> op, expr |-> expr]
Compound(id, children) ==
    [node |-> "Compound", id |-> id, children |-> children]
Assign(id, left, op, right) ==
    [node |-> "Assign", id |-> id, left |-> left, token |-> op, op |-> op,
     right |-> right]
Var(id, token) ==
    [node |-> "Var", id |-> id, token |-> token, value |-> token.value]
NoOp(id) == [node |-> "NoOp", id |-> id]
Program(id, name, block) ==
    [node |-> "Program", id |-> id, name |-> name, block |-> block]
Block(id, declarations, compound_statement) ==
    [node |-> "Block", id |-> id, declarations |-> declarations,
     compound_statement |-> compound_statement]
VarDecl(id, var_node, type_node) ==
    [node |-> "VarDecl", id |-> id, var_node |-> var_node,
     type_node |-> type_node]
Type(id, token) ==
    [node |-> "Type", id |-> id, token |-> token, value |-> token.value]
ProcedureDecl(id, proc_name, block_node) ==
    [node |-> "ProcedureDecl", id |-> id, proc_name |-> proc_name,
     block_node |-> block_node]

-----------------------------------------------------------------------------
(* Parser.  A call of a parsing method is a frame on ctl; the method's     *)
(* action replaces its frame by the frames of what the method does next,   *)
(* up to its next call, and a finished method leaves its result on vals.   *)

FEat(type) == [op |-> "eat", type |-> type]
FTok(op, token) == [op |-> op, token |-> token]

ParseAt(op) ==
    /\ exc = "none" /\ main_pc = "parse" /\ lpc = "idle"
    /\ ctl # <<>> /\ Head(ctl).op = op

\* the method goes on with `frames`, its results so far being `newvals`,
\* having built n AST objects
ParseGo(frames, newvals, n) ==
    /\ ctl' = frames \o Tail(ctl)
    /\ vals' = newvals
    /\ nextId' = nextId + n
    /\ UNCHANGED <<runvars, lexvars, current_token, tree, main_pc, symvars,
                   intvars, exc>>

\* Parser.error
Parser_error ==
    /\ Raise("Invalid Syntax")
    /\ UNCHANGED <<runvars, lexvars, parsevars, main_pc, symvars, intvars>>

\* Parser.__init__, called by main, which then calls parse
Parser_init ==
    /\ exc = "none" /\ main_pc = "Parser" /\ lpc = "idle"
    /\ Lexer_call(<<F("token_ret"), F("parse")>>)
    /\ main_pc' = "parse"

\* an eat that takes the next token whatever the current one is
Parser_eat_unchecked ==
    /\ ParseAt("eat")
    /\ Lexer_call(<<F("token_ret")>> \o Tail(ctl))
    /\ UNCHANGED main_pc

Parser_eat ==
    /\ ParseAt("eat")
    /\ IF current_token.type = Head(ctl).type
       THEN /\ Lexer_call(<<F("token_ret")>> \o Tail(ctl))
            /\ UNCHANGED main_pc
       ELSE Parser_error

Parser_parse ==
    /\ ParseAt("parse")
    /\ ParseGo(<<F("program"), F("parse_check")>>, vals, 0)

\* a parse that returns the node whatever the current token is
Parser_parse_check_skipped ==
    /\ ParseAt("parse_check")
    /\ tree' = Head(vals)
    /\ vals' = Tail(vals)
    /\ ctl' = Tail(ctl)
    /\ main_pc' = "SymbolTableBuilder"
    /\ UNCHANGED <<runvars, lexvars, current_token, nextId, symvars,
                   intvars, exc>>

\* if self.current_token.type != EOF: self.error(); return node
Parser_parse_check ==
    /\ ParseAt("parse_check")
    /\ IF current_token.type # EOF
       THEN Parser_error
       ELSE /\ tree' = Head(vals)
            /\ vals' = Tail(vals)
            /\ ctl' = Tail(ctl)
            /\ main_pc' = "SymbolTableBuilder"
            /\ UNCHANGED <<runvars, lexvars, current_token, nextId, symvars,
                           intvars, exc>>

Parser_program ==
    /\ ParseAt("program")
    /\ ParseGo(<<FEat(PROGRAM), F("variable"), FEat(SEMI), F("block"),
                 F("program_node")>>, vals, 0)

\* program_node = Program(prog_name, block_node); self.eat(DOT)
Parser_program_node ==
    /\ ParseAt("program_node")
    /\ LET block_node == vals[1]
           var_node == vals[2]
       IN  ParseGo(<<FEat(DOT)>>,
                   <<Program(nextId, var_node.value, block_node)>>
                       \o SubSeq(vals, 3, Len(vals)), 1)

Parser_compound_statement ==
    /\ ParseAt("compound_statement")
    /\ ParseGo(<<FEat(BEGIN), F("statement_list"), FEat(END),
                 F("compound_root")>>, vals, 0)

\* root = Compound(); root.children.append(node) for each node
Parser_compound_root ==
    /\ ParseAt("compound_root")
    /\ ParseGo(<<>>, <<Compound(nextId, Head(vals))>> \o Tail(vals), 1)

Parser_statement_list ==
    /\ ParseAt("statement_list")
    /\ ParseGo(<<F("statement"), F("statement_list_results"),
                 F("statement_list_loop")>>, vals, 0)

\* results = [node]
Parser_statement_list_results ==
    /\ ParseAt("statement_list_results")
    /\ ParseGo(<<>>, <<<<Head(vals)>>>> \o Tail(vals), 0)

\* while current_token.type == SEMI; then the check for a dangling ID
Parser_statement_list_loop ==
    /\ ParseAt("statement_list_loop")
    /\ IF current_token.type = SEMI
       THEN ParseGo(<<FEat(SEMI), F("statement"), F("statement_list_append"),
                      F("statement_list_loop")>>, vals, 0)
       ELSE IF current_token.type = ID
            THEN Parser_error
            ELSE ParseGo(<<>>, vals, 0)

\* results.append(...)
Parser_statement_list_append ==
    /\ ParseAt("statement_list_append")
    /\ ParseGo(<<>>, <<Append(vals[2], vals[1])>> \o SubSeq(vals, 3, Len(vals)), 0)

Parser_statement ==
    /\ ParseAt("statement")
    /\ IF current_token.type = BEGIN
       THEN ParseGo(<<F("compound_statement")>>, vals, 0)
       ELSE IF current_token.type = ID
            THEN ParseGo(<<F("assignment_statement")>>, vals, 0)
            ELSE ParseGo(<<F("empty")>>, vals, 0)

Parser_assignment_statement ==
    /\ ParseAt("assignment_statement")
    /\ ParseGo(<<F("variable"), F("assignment_token")>>, vals, 0)

\* token = self.current_token; self.eat(ASSIGN); right = self.expr()
Parser_assignment_token ==
    /\ ParseAt("assignment_token")
    /\ ParseGo(<<FEat(ASSIGN), F("expr"),
                 FTok("assignment_node", current_token)>>, vals, 0)

\* node = Assign(left, token, right)
Parser_assignment_node ==
    /\ ParseAt("assignment_node")
    /\ ParseGo(<<>>, <<Assign(nextId, vals[2], Head(ctl).token, vals[1])>>
                         \o SubSeq(vals, 3, Len(vals)), 1)

Parser_variable ==
    /\ ParseAt("variable")
    /\ ParseGo(<<FEat(ID)>>, <<Var(nextId, current_token)>> \o vals, 1)

Parser_empty ==
    /\ ParseAt("empty")
    /\ ParseGo(<<>>, <<NoOp(nextId)>> \o vals, 1)

Parser_term ==
    /\ ParseAt("term")
    /\ ParseGo(<<F("factor"), F("term_loop")>>, vals, 0)

\* while current_token.type in (MUL, INTEGER_DIV, FLOAT_DIV)
Parser_term_loop ==
    /\ ParseAt("term_loop")
    /\ IF current_token.type \in {MUL, INTEGER_DIV, FLOAT_DIV}
       THEN ParseGo(<<FEat(current_token.type), F("factor"),
                      FTok("BinOp_node", current_token), F("term_loop")>>,
                    vals, 0)
       ELSE ParseGo(<<>>, vals, 0)

\* node = BinOp(left=node, op=token, right=...), of term and of expr
Parser_BinOp_node ==
    /\ ParseAt("BinOp_node")
    /\ ParseGo(<<>>, <<BinOp(nextId, vals[2], Head(ctl).token, vals[1])>>
                         \o SubSeq(vals, 3, Len(vals)), 1)

Parser_factor ==
    /\ ParseAt("factor")
    /\ LET token == current_token
       IN  IF token.type = PLUS
           THEN ParseGo(<<FEat(PLUS), F("factor"), FTok("UnaryOp_node", token)>>,
                        vals, 0)
           ELSE IF token.type = MINUS
           THEN ParseGo(<<FEat(MINUS), F("factor"), FTok("UnaryOp_node", token)>>,
                        vals, 0)
           ELSE IF token.type = INTEGER_CONST
           THEN ParseGo(<<FEat(INTEGER_CONST), FTok("Num_node", token)>>, vals, 0)
           ELSE IF token.type = REAL_CONST
           THEN ParseGo(<<FEat(REAL_CONST), FTok("Num_node", token)>>, vals, 0)
           ELSE IF token.type = LPAREN
           THEN ParseGo(<<FEat(LPAREN), F("expr"), FEat(RPAREN)>>, vals, 0)
           ELSE ParseGo(<<F("variable")>>, vals, 0)

\* node = UnaryOp(token, self.factor())
Parser_UnaryOp_node ==
    /\ ParseAt("UnaryOp_node")
    /\ ParseGo(<<>>, <<UnaryOp(nextId, Head(ctl).token, Head(vals))>>
                         \o Tail(vals), 1)

\* return Num(token)
Parser_Num_node ==
    /\ ParseAt("Num_node")
    /\ ParseGo(<<>>, <<Num(nextId, Head(ctl).token)>> \o vals, 1)

Parser_expr ==
    /\ ParseAt("expr")
    /\ ParseGo(<<F("term"), F("expr_loop")>>, vals, 0)

\* an expr whose right operand is an expr: PLUS and MINUS nest to the right
Parser_expr_loop_right_recursive ==
    /\ ParseAt("expr_loop")
    /\ IF current_token.type \in {PLUS, MINUS}
       THEN ParseGo(<<FEat(current_token.type), F("expr"),
                      FTok("BinOp_node", current_token), F("expr_loop")>>,
                    vals, 0)
       ELSE ParseGo(<<>>, vals, 0)

\* while current_token.type in (PLUS, MINUS)
Parser_expr_loop ==
    /\ ParseAt("expr_loop")
    /\ IF current_token.type \in {PLUS, MINUS}
       THEN ParseGo(<<FEat(current_token.type), F("term"),
                      FTok("BinOp_node", current_token), F("expr_loop")>>,
                    vals, 0)
       ELSE ParseGo(<<>>, vals, 0)

Parser_block ==
    /\ ParseAt("block")
    /\ ParseGo(<<F("declarations"), F("compound_statement"), F("block_node")>>,
               vals, 0)

\* node = Block(declarations, compound_statement_node)
Parser_block_node ==
    /\ ParseAt("block_node")
    /\ ParseGo(<<>>, <<Block(nextId, vals[2], vals[1])>>
                         \o SubSeq(vals, 3, Len(vals)), 1)

\* declarations = []; if current_token.type == VAR: eat(VAR), then the loops
Parser_declarations ==
    /\ ParseAt("declarations")
    /\ IF current_token.type = VAR
       THEN ParseGo(<<FEat(VAR), F("declarations_var_loop"),
                      F("declarations_proc_loop")>>, <<<<>>>> \o vals, 0)
       ELSE ParseGo(<<F("declarations_proc_loop")>>, <<<<>>>> \o vals, 0)

\* while current_token.type == ID
Parser_declarations_var_loop ==
    /\ ParseAt("declarations_var_loop")
    /\ IF current_token.type = ID
       THEN ParseGo(<<F("variable_declaration"), F("declarations_extend"),
                      FEat(SEMI), F("declarations_var_loop")>>, vals, 0)
       ELSE ParseGo(<<>>, vals, 0)

\* declarations.extend(var_decl)
Parser_declarations_extend ==
    /\ ParseAt("declarations_extend")
    /\ ParseGo(<<>>, <<vals[2] \o vals[1]>> \o SubSeq(vals, 3, Len(vals)), 0)

\* while current_token.type == PROCEDURE
Parser_declarations_proc_loop ==
    /\ ParseAt("declarations_proc_loop")
    /\ IF current_token.type = PROCEDURE
       THEN ParseGo(<<FEat(PROCEDURE), F("declarations_proc_name")>>, vals, 0)
       ELSE ParseGo(<<>>, vals, 0)

\* proc_name = current_token.value; eat(ID); eat(SEMI); block_node = block()
Parser_declarations_proc_name ==
    /\ ParseAt("declarations_proc_name")
    /\ ParseGo(<<FEat(ID), FEat(SEMI), F("block"),
                 [op |-> "declarations_proc_decl",
                  proc_name |-> current_token.value],
                 FEat(SEMI), F("declarations_proc_loop")>>, vals, 0)

\* declarations.append(ProcedureDecl(proc_name, block_node))
Parser_declarations_proc_decl ==
    /\ ParseAt("declarations_proc_decl")
    /\ ParseGo(<<>>,
               <<Append(vals[2], ProcedureDecl(nextId, Head(ctl).proc_name, vals[1]))>>
                   \o SubSeq(vals, 3, Len(vals)), 1)

\* var_nodes = [Var(self.current_token)]; self.eat(ID)
Parser_variable_declaration ==
    /\ ParseAt("variable_declaration")
    /\ ParseGo(<<FEat(ID), F("variable_declaration_loop")>>,
               <<<<Var(nextId, current_token)>>>> \o vals, 1)

\* while current_token.type == COMMA; then eat(COLON) and type_spec()
Parser_variable_declaration_loop ==
    /\ ParseAt("variable_declaration_loop")
    /\ IF current_token.type = COMMA
       THEN ParseGo(<<FEat(COMMA), F("variable_declaration_var"),
                      F("variable_declaration_loop")>>, vals, 0)
       ELSE ParseGo(<<FEat(COLON), F("type_spec"),
                      F("variable_declaration_list")>>, vals, 0)

\* var_nodes.append(Var(self.current_token)); self.eat(ID)
Parser_variable_declaration_var ==
    /\ ParseAt("variable_declaration_var")
    /\ ParseGo(<<FEat(ID)>>,
               <<Append(Head(vals), Var(nextId, current_token))>> \o Tail(vals), 1)

\* [VarDecl(var_node, type_node) for var_node in var_nodes]
Parser_variable_declaration_list ==
    /\ ParseAt("variable_declaration_list")
    /\ LET type_node == vals[1]
           var_nodes == vals[2]
       IN  ParseGo(<<>>,
                   <<[i \in 1..Len(var_nodes) |->
                        VarDecl(nextId + i - 1, var_nodes[i], type_node)]>>
                       \o SubSeq(vals, 3, Len(vals)), Len(var_nodes))

\* token = self.current_token; eat(INTEGER) or eat(REAL)
Parser_type_spec ==
    /\ ParseAt("type_spec")
    /\ IF current_token.type = INTEGER
       THEN ParseGo(<<FEat(INTEGER), FTok("Type_node", current_token)>>, vals, 0)
       ELSE ParseGo(<<FEat(REAL), FTok("Type_node", current_token)>>, vals, 0)

\* node = Type(token)
Parser_Type_node ==
    /\ ParseAt("Type_node")
    /\ ParseGo(<<>>, <<Type(nextId, Head(ctl).token)>> \o vals, 1)

Parser ==
    \/ Parser_init
    \/ token_ret
    \/ Parser_eat
    \/ Parser_parse
    \/ Parser_parse_check
    \/ Parser_program
    \/ Parser_program_node
    \/ Parser_compound_statement
    \/ Parser_compound_root
    \/ Parser_statement_list
    \/ Parser_statement_list_results
    \/ Parser_statement_list_loop
    \/ Parser_statement_list_append
    \/ Parser_statement
    \/ Parser_assignment_statement
    \/ Parser_assignment_token
    \/ Parser_assignment_node
    \/ Parser_variable
    \/ Parser_empty
    \/ Parser_term
    \/ Parser_term_loop
    \/ Parser_BinOp_node
    \/ Parser_factor
    \/ Parser_UnaryOp_node
    \/ Parser_Num_node
    \/ Parser_expr
    \/ Parser_expr_loop
    \/ Parser_block
    \/ Parser_block_node
    \/ Parser_declarations
    \/ Parser_declarations_var_loop
    \/ Parser_declarations_extend
    \/ Parser_declarations_proc_loop
    \/ Parser_declarations_proc_name
    \/ Parser_declarations_proc_decl
    \/ Parser_variable_declaration
    \/ Parser_variable_declaration_loop
    \/ Parser_variable_declaration_var
    \/ Parser_variable_declaration_list
    \/ Parser_type_spec
    \/ Parser_Type_node

-----------------------------------------------------------------------------
(* SymbolTable and SymbolTableBuilder *)

BuiltinTypeSymbol(name) ==
    [cls |-> "BuiltinTypeSymbol", name |-> name, type |-> PyNone]
VarSymbol(name, type) == [cls |-> "VarSymbol", name |-> name, type |-> type]

\* self._symbols[symbol.name] = symbol, on an OrderedDict
SymbolTable_define(symbols, symbol) ==
    IF \E i \in 1..Len(symbols) : symbols[i].name = symbol.name
    THEN [i \in 1..Len(symbols) |->
            IF symbols[i].name = symbol.name THEN symbol ELSE symbols[i]]
    ELSE Append(symbols, symbol)

\* self._symbols.get(name)
SymbolTable_lookup(symbols, name) ==
    IF \E i \in 1..Len(symbols) : symbols[i].name = name
    THEN symbols[CHOOSE i \in 1..Len(symbols) : symbols[i].name = name]
    ELSE PyNone

\* SymbolTable.__init__ with _init_builtins
SymbolTable_init ==
    SymbolTable_define(
        SymbolTable_define(<<>>, BuiltinTypeSymbol(PyStr(wINTEGER))),
        BuiltinTypeSymbol(PyStr(wREAL)))

SymAt(kind) ==
    /\ exc = "none" /\ main_pc = "visit"
    /\ sctl # <<>> /\ Head(sctl).node = kind

\* the visit goes on with the visits of `nodes`, in this order
SymGo(nodes, symbols) ==
    /\ sctl' = nodes \o Tail(sctl)
    /\ symtab' = symbols
    /\ UNCHANGED <<runvars, lexvars, parsevars, main_pc, intvars, exc>>

SymbolTableBuilder_visit_Program ==
    /\ SymAt("Program")
    /\ SymGo(<<Head(sctl).block>>, symtab)

SymbolTableBuilder_visit_Block ==
    /\ SymAt("Block")
    /\ SymGo(Head(sctl).declarations \o <<Head(sctl).compound_statement>>, symtab)

SymbolTableBuilder_visit_VarDecl ==
    /\ SymAt("VarDecl")
    /\ LET node == Head(sctl)
           type_symbol == SymbolTable_lookup(symtab, node.type_node.value)
           var_symbol == VarSymbol(node.var_node.value, type_symbol)
       IN  SymGo(<<>>, SymbolTable_define(symtab, var_symbol))

SymbolTableBuilder_visit_ProcedureDecl ==
    /\ SymAt("ProcedureDecl")
    /\ SymGo(<<>>, symtab)

SymbolTableBuilder_visit_Compound ==
    /\ SymAt("Compound")
    /\ SymGo(Head(sctl).children, symtab)

SymbolTableBuilder_visit_Assign ==
    /\ SymAt("Assign")
    /\ SymGo(<<Head(sctl).left, Head(sctl).right>>, symtab)

\* a visit_Var that does not look the name up
SymbolTableBuilder_visit_Var_unchecked ==
    /\ SymAt("Var")
    /\ SymGo(<<>>, symtab)

SymbolTableBuilder_visit_Var ==
    /\ SymAt("Var")
    /\ LET var_symbol == SymbolTable_lookup(symtab, Head(sctl).value)
       IN  IF var_symbol = PyNone
           THEN /\ Raise("NameError")
                /\ UNCHANGED <<runvars, lexvars, parsevars, main_pc, symvars,
                               intvars>>
           ELSE SymGo(<<>>, symtab)

SymbolTableBuilder_visit_BinOp ==
    /\ SymAt("BinOp")
    /\ SymGo(<<Head(sctl).left, Head(sctl).right>>, symtab)

SymbolTableBuilder_visit_Num ==
    /\ SymAt("Num")
    /\ SymGo(<<>>, symtab)

SymbolTableBuilder_visit_UnaryOp ==
    /\ SymAt("UnaryOp")
    /\ SymGo(<<Head(sctl).expr>>, symtab)

SymbolTableBuilder_visit_NoOp ==
    /\ SymAt("NoOp")
    /\ SymGo(<<>>, symtab)

SymbolTableBuilder ==
    \/ SymbolTableBuilder_visit_Program
    \/ SymbolTableBuilder_visit_Block
    \/ SymbolTableBuilder_visit_VarDecl
    \/ SymbolTableBuilder_visit_ProcedureDecl
    \/ SymbolTableBuilder_visit_Compound
    \/ SymbolTableBuilder_visit_Assign
    \/ SymbolTableBuilder_visit_Var
    \/ SymbolTableBuilder_visit_BinOp
    \/ SymbolTableBuilder_visit_Num
    \/ SymbolTableBuilder_visit_UnaryOp
    \/ SymbolTableBuilder_visit_NoOp

-----------------------------------------------------------------------------
(* Interpreter.  ictl holds the visits still to make and the operations   *)
(* waiting for their operands; ivals the values the visits returned.       *)

FVisit(node) == [op |-> "visit", node |-> node]
FVisits(nodes) == [i \in 1..Len(nodes) |-> FVisit(nodes[i])]

\* dict.get(key) and dict[key] = value
dict_get(d, key) == IF key \in DOMAIN d THEN d[key] ELSE PyNone
dict_set(d, key, value) ==
    [k \in DOMAIN d \cup {key} |-> IF k = key THEN value ELSE d[k]]

IntAt(kind) ==
    /\ exc = "none" /\ main_pc = "interpret"
    /\ ictl # <<>> /\ Head(ictl).op = "visit" /\ Head(ictl).node.node = kind

IntOp(op) ==
    /\ exc = "none" /\ main_pc = "interpret"
    /\ ictl # <<>> /\ Head(ictl).op = op

IntGo(frames, values) ==
    /\ ictl' = frames \o Tail(ictl)
    /\ ivals' = values
    /\ UNCHANGED <<runvars, lexvars, parsevars, main_pc, symvars, GLOBAL_SCOPE,
                   assigned, exc>>

IntRaise(e) ==
    /\ Raise(e)
    /\ UNCHANGED <<runvars, lexvars, parsevars, main_pc, symvars, intvars>>

Interpreter_visit_Program ==
    /\ IntAt("Program")
    /\ IntGo(<<FVisit(Head(ictl).node.block)>>, ivals)

Interpreter_visit_Block ==
    /\ IntAt("Block")
    /\ IntGo(FVisits(Head(ictl).node.declarations)
                 \o <<FVisit(Head(ictl).node.compound_statement)>>, ivals)

\* a visit_VarDecl that binds the declared name to 0
Interpreter_visit_VarDecl_initialising ==
    /\ IntAt("VarDecl")
    /\ GLOBAL_SCOPE' = dict_set(GLOBAL_SCOPE, Head(ictl).node.var_node.value,
                                PyInt(0))
    /\ ictl' = Tail(ictl)
    /\ UNCHANGED <<runvars, lexvars, parsevars, main_pc, symvars, ivals,
                   assigned, exc>>

Interpreter_visit_VarDecl ==
    /\ IntAt("VarDecl")
    /\ IntGo(<<>>, ivals)

\* a visit_ProcedureDecl that visits the procedure's block
Interpreter_visit_ProcedureDecl_walking ==
    /\ IntAt("ProcedureDecl")
    /\ IntGo(<<FVisit(Head(ictl).node.block_node)>>, ivals)

Interpreter_visit_ProcedureDecl ==
    /\ IntAt("ProcedureDecl")
    /\ IntGo(<<>>, ivals)

Interpreter_visit_Compound ==
    /\ IntAt("Compound")
    /\ IntGo(FVisits(Head(ictl).node.children), ivals)

Interpreter_visit_NoOp ==
    /\ IntAt("NoOp")
    /\ IntGo(<<>>, ivals)

\* var_name = node.left.value; the right-hand side is visited first
Interpreter_visit_Assign ==
    /\ IntAt("Assign")
    /\ LET node == Head(ictl).node
       IN  IntGo(<<FVisit(node.right),
                   [op |-> "Assign_store", var_name |-> node.left.value]>>, ivals)

\* self.GLOBAL_SCOPE[var_name] = <the value>
Interpreter_Assign_store ==
    /\ IntOp("Assign_store")
    /\ GLOBAL_SCOPE' = dict_set(GLOBAL_SCOPE, Head(ictl).var_name, Head(ivals))
    /\ assigned' = Append(assigned, <<Head(ictl).var_name, Head(ivals)>>)
    /\ ictl' = Tail(ictl)
    /\ ivals' = Tail(ivals)
    /\ UNCHANGED <<runvars, lexvars, parsevars, main_pc, symvars, exc>>

Interpreter_visit_Num ==
    /\ IntAt("Num")
    /\ IntGo(<<>>, <<Head(ictl).node.value>> \o ivals)

\* a visit_Var that takes every falsy value for a missing one
Interpreter_visit_Var_falsy ==
    /\ IntAt("Var")
    /\ LET val == dict_get(GLOBAL_SCOPE, Head(ictl).node.value)
       IN  IF val = PyNone \/ IsZero(val)
           THEN IntRaise("NameError")
           ELSE IntGo(<<>>, <<val>> \o ivals)

Interpreter_visit_Var ==
    /\ IntAt("Var")
    /\ LET val == dict_get(GLOBAL_SCOPE, Head(ictl).node.value)
       IN  IF val = PyNone
           THEN IntRaise("NameError")
           ELSE IntGo(<<>>, <<val>> \o ivals)

\* the operands are visited left to right, then the operator is applied
Interpreter_visit_BinOp ==
    /\ IntAt("BinOp")
    /\ LET node == Head(ictl).node
       IN  IntGo(<<FVisit(node.left), FVisit(node.right),
                   [op |-> "BinOp_apply", type |-> node.op.type]>>, ivals)

\* a division that gives 0 for a zero divisor
BinOp_result_zero_quotient(type, left, right) ==
    IF type = PLUS THEN [raises |-> "none", value |-> PyAdd(left, right)]
    ELSE IF type = MINUS THEN [raises |-> "none", value |-> PySub(left, right)]
    ELSE IF type = MUL THEN [raises |-> "none", value |-> PyMul(left, right)]
    ELSE IF IsZero(right) THEN [raises |-> "none", value |-> PyInt(0)]
    ELSE IF type = INTEGER_DIV
    THEN [raises |-> "none", value |-> PyFloorDiv(left, right)]
    ELSE [raises |-> "none", value |-> PyTrueDiv(left, right)]

\* the operator of visit_BinOp on the values of left and right
BinOp_result(type, left, right) ==
    IF type = PLUS THEN [raises |-> "none", value |-> PyAdd(left, right)]
    ELSE IF type = MINUS THEN [raises |-> "none", value |-> PySub(left, right)]
    ELSE IF type = MUL THEN [raises |-> "none", value |-> PyMul(left, right)]
    ELSE IF type = INTEGER_DIV
    THEN IF IsZero(right)
         THEN [raises |-> "ZeroDivisionError", value |-> PyNone]
         ELSE [raises |-> "none", value |-> PyFloorDiv(left, right)]
    ELSE IF type = FLOAT_DIV
    THEN IF IsZero(right)
         THEN [raises |-> "ZeroDivisionError", value |-> PyNone]
         ELSE [raises |-> "none", value |-> PyTrueDiv(left, right)]
    ELSE [raises |-> "none", value |-> PyNone]

Interpreter_BinOp_apply ==
    /\ IntOp("BinOp_apply")
    /\ LET r == BinOp_result(Head(ictl).type, ivals[2], ivals[1])
       IN  IF r.raises # "none"
           THEN IntRaise(r.raises)
           ELSE IntGo(<<>>, <<r.value>> \o SubSeq(ivals, 3, Len(ivals)))

Interpreter_visit_UnaryOp ==
    /\ IntAt("UnaryOp")
    /\ LET node == Head(ictl).node
       IN  IntGo(<<FVisit(node.expr),
                   [op |-> "UnaryOp_apply", type |-> node.op.type]>>, ivals)

UnaryOp_result(type, value) ==
    IF type = PLUS THEN PyPos(value)
    ELSE IF type = MINUS THEN PyNeg(value)
    ELSE PyNone

Interpreter_UnaryOp_apply ==
    /\ IntOp("UnaryOp_apply")
    /\ IntGo(<<>>, <<UnaryOp_result(Head(ictl).type, Head(ivals))>> \o Tail(ivals))

Interpreter ==
    \/ Interpreter_visit_Program
    \/ Interpreter_visit_Block
    \/ Interpreter_visit_VarDecl
    \/ Interpreter_visit_ProcedureDecl
    \/ Interpreter_visit_Compound
    \/ Interpreter_visit_NoOp
    \/ Interpreter_visit_Assign
    \/ Interpreter_Assign_store
    \/ Interpreter_visit_Num
    \/ Interpreter_visit_Var
    \/ Interpreter_visit_BinOp
    \/ Interpreter_BinOp_apply
    \/ Interpreter_visit_UnaryOp
    \/ Interpreter_UnaryOp_apply

-----------------------------------------------------------------------------
(* main, after the Lexer and the Parser are built and parse has returned *)

\* symtab_builder = SymbolTableBuilder(); symtab_builder.visit(tree)
main_SymbolTableBuilder ==
    /\ exc = "none" /\ main_pc = "SymbolTableBuilder"
    /\ symtab' = SymbolTable_init
    /\ sctl' = <<tree>>
    /\ main_pc' = "visit"
    /\ UNCHANGED <<runvars, lexvars, parsevars, intvars, exc>>

\* interpreter = Interpreter(tree); result = interpreter.interpret()
main_Interpreter ==
    /\ exc = "none" /\ main_pc = "visit" /\ sctl = <<>>
    /\ GLOBAL_SCOPE' = <<>>
    /\ ictl' = <<FVisit(tree)>>
    /\ main_pc' = "interpret"
    /\ UNCHANGED <<runvars, lexvars, parsevars, symvars, ivals, assigned, exc>>

\* the report of GLOBAL_SCOPE, and main returns
main_print ==
    /\ exc = "none" /\ main_pc = "interpret" /\ ictl = <<>>
    /\ main_pc' = "end"
    /\ UNCHANGED <<runvars, lexvars, parsevars, symvars, intvars, exc>>

-----------------------------------------------------------------------------
(* The programs main is run on.  A source is a list of lexemes, written    *)
(* out with one blank between neighbours; at one gap (after lexeme `gap`)  *)
(* the first text has sep1 and the second text, if any, has sep2.          *)

cSEMI == <<";">>
cDOT == <<".">>
cCOMMA == <<",">>
cCOLON == <<":">>
cASSIGN == <<":", "=">>
cPLUS == <<"+">>
cMINUS == <<"-">>
cMUL == <<"*">>
cSLASH == <<"/">>
cLPAREN == <<"(">>
cRPAREN == <<")">>
idT == <<"T">>
idP == <<"P">>
ida == <<"a">>
idb == <<"b">>
idk == <<"k">>
idx == <<"x">>
NumLex(n) == <<DigitChars[n + 1]>>

RECURSIVE Render(_, _, _, _)
Render(prog, i, gap, sep) ==
    IF i > Len(prog) THEN <<>>
    ELSE IF i = Len(prog) THEN prog[i]
    ELSE prog[i] \o (IF i = gap THEN sep ELSE <<" ">>)
                 \o Render(prog, i + 1, gap, sep)

Text1(s) == Render(s.prog, 1, s.gap, s.sep1)
Text2(s) == Render(s.prog, 1, s.gap, s.sep2)

Plain(prog) == [prog |-> prog, gap |-> 0, sep1 |-> <<>>, sep2 |-> <<>>]

\* PROGRAM T ; VAR <names> : INTEGER ; BEGIN <body> END .
RECURSIVE SepBy(_, _)
SepBy(items, sep) ==
    IF items = <<>> THEN <<>>
    ELSE IF Len(items) = 1 THEN items[1]
    ELSE items[1] \o sep \o SepBy(Tail(items), sep)

ProgramOf(names, body) ==
    <<wPROGRAM, idT, cSEMI, wVAR>>
        \o SepBy([i \in 1..Len(names) |-> <<names[i]>>], <<cCOMMA>>)
        \o <<cCOLON, wINTEGER, cSEMI, wBEGIN>> \o body \o <<wEND, cDOT>>

\* a := [sign] x op1 y op2 z  for small x, y, z and every pair of operators
BinaryOps == {cPLUS, cMINUS, cMUL, cSLASH, wDIV}
Signs == {<<>>, <<cMINUS>>, <<cPLUS>>}
Operands == 0..MaxNum

ChainBody(u, x, o1, y, o2, z) ==
    <<ida, cASSIGN>> \o u \o <<NumLex(x), o1, NumLex(y), o2, NumLex(z)>>

ChainPrograms ==
    { ProgramOf(<<ida>>, ChainBody(u, x, o1, y, o2, z)) :
        u \in Signs, x \in Operands, o1 \in BinaryOps, y \in Operands,
        o2 \in BinaryOps, z \in Operands }

\* up to MaxStmts assignments, over one or two declared names
Statements ==
    { <<ida, cASSIGN, NumLex(0)>>,
      <<ida, cASSIGN, NumLex(1)>>,
      <<idb, cASSIGN, ida>>,
      <<ida, cASSIGN, ida, cPLUS, NumLex(1)>>,
      <<ida, cASSIGN, NumLex(1), wDIV, ida>>,
      <<idb, cASSIGN, NumLex(1), cSLASH, ida>> }

RECURSIVE StatementLists(_)
StatementLists(n) ==
    IF n = 0 THEN {<<>>}
    ELSE {<<st>> \o l : st \in Statements, l \in StatementLists(n - 1)}

StatementPrograms ==
    { ProgramOf(names, SepBy(l, <<cSEMI>>)) :
        names \in {<<ida>>, <<ida, idb>>},
        l \in UNION {StatementLists(n) : n \in 1..MaxStmts} }

\* single programs: the scenarios of the design, and one of each other kind
Scenario1 ==
    ProgramOf(<<ida, idb>>,
              <<ida, cASSIGN, NumLex(2), cSEMI,
                idb, cASSIGN, <<"1", "0">>, cMUL, ida, cPLUS, NumLex(1), cSEMI>>)
Scenario2 ==
    <<wPROGRAM, idT, cSEMI, wVAR, idx, cCOLON, wINTEGER, cSEMI,
      idk, cCOLON, wREAL, cSEMI, wBEGIN,
      idx, cASSIGN, NumLex(7), wDIV, NumLex(2), cSEMI,
      idk, cASSIGN, NumLex(7), cSLASH, NumLex(2), cSEMI, wEND, cDOT>>
Scenario3 ==
    ProgramOf(<<ida>>, <<ida, cASSIGN, idb, cPLUS, NumLex(1), cSEMI>>)
Scenario4 ==
    ProgramOf(<<ida>>, <<ida, cASSIGN, NumLex(1), cPLUS, cSEMI>>)
Scenario5 ==
    <<wPROGRAM, idT, cSEMI, wVAR, ida, cCOLON, wINTEGER, cSEMI, wBEGIN,
      <<"{">>, idx, wBEGIN, ida, cASSIGN, NumLex(1), cSEMI, wEND, cDOT>>
Scenario6 ==
    ProgramOf(<<ida>>,
              <<ida, cASSIGN, cMINUS, cLPAREN, NumLex(3), cPLUS, NumLex(4),
                cRPAREN, cMUL, NumLex(2), cSEMI>>)
Subtraction ==
    ProgramOf(<<ida>>,
              <<ida, cASSIGN, <<"1", "0">>, cMINUS, NumLex(3), cMINUS, NumLex(2)>>)
\* a procedure with its own declaration and body, and nested compounds
WithProcedure ==
    <<wPROGRAM, idT, cSEMI, wVAR, ida, cCOLON, wINTEGER, cSEMI,
      wPROCEDURE, idP, cSEMI, wVAR, idk, cCOLON, wREAL, cSEMI,
      wBEGIN, idk, cASSIGN, <<"1", ".", "5">>, wEND, cSEMI,
      wBEGIN, wBEGIN, ida, cASSIGN, NumLex(0), wEND, cSEMI,
      ida, cASSIGN, ida, cPLUS, <<"2", ".", "5">>, wEND, cDOT>>
ProcedureOnlyNames ==
    <<wPROGRAM, idT, cSEMI,
      wPROCEDURE, idP, cSEMI, wBEGIN, idx, cASSIGN, idk, wEND, cSEMI,
      wBEGIN, wEND, cDOT>>
EmptyVarSection == <<wPROGRAM, idT, cSEMI, wVAR, wBEGIN, wEND, cDOT>>
EmptyVarSectionUsed ==
    <<wPROGRAM, idT, cSEMI, wVAR, wPROCEDURE, idP, cSEMI, wBEGIN, wEND, cSEMI,
      wBEGIN, wEND, cDOT>>
NoVarSection == <<wPROGRAM, idT, cSEMI, wBEGIN, ida, cASSIGN, NumLex(1), wEND, cDOT>>
TrailingToken == <<wPROGRAM, idT, cSEMI, wBEGIN, wEND, cDOT, cSEMI>>
TrailingProgram == <<wPROGRAM, idT, cSEMI, wBEGIN, wEND, cDOT, wPROGRAM>>
DanglingId ==
    ProgramOf(<<ida>>, <<ida, cASSIGN, NumLex(1), ida, cASSIGN, NumLex(2)>>)
BadType == <<wPROGRAM, idT, cSEMI, wVAR, ida, cCOLON, ida, cSEMI, wBEGIN, wEND, cDOT>>
InvalidCharacter == ProgramOf(<<ida>>, <<ida, cASSIGN, NumLex(1), <<"$">>>>)
\* a division by zero between two other assignments
DivisionByZero ==
    ProgramOf(<<ida, idb>>,
              <<ida, cASSIGN, NumLex(5), cSEMI,
                ida, cASSIGN, NumLex(1), wDIV, cLPAREN, ida, cMINUS, ida, cRPAREN,
                cSEMI, idb, cASSIGN, NumLex(2)>>)
\* a name assigned again after another name was bound
Overwrite ==
    ProgramOf(<<ida, idb>>,
              <<ida, cASSIGN, NumLex(1), cSEMI, idb, cASSIGN, ida, cSEMI,
                ida, cASSIGN, ida, cPLUS, NumLex(1)>>)
NotAProgram == <<wBEGIN, wEND, cDOT>>
OnlyBlanks == <<<<" ">>, <<"\n">>>>
OnlyComment == <<<<"{", "x", "}">>>>
EmptyText == <<>>

SinglePrograms ==
    { Scenario1, Scenario2, Scenario3, Scenario4, Scenario5, Scenario6,
      Subtraction, WithProcedure, ProcedureOnlyNames, EmptyVarSection,
      EmptyVarSectionUsed, NoVarSection, TrailingToken, TrailingProgram,
      DanglingId, BadType, InvalidCharacter, DivisionByZero, Overwrite,
      NotAProgram, OnlyBlanks, OnlyComment, EmptyText }

\* one program in two texts that differ in what separates two neighbouring
\* lexemes: blanks or a comment are taken out or put in
EditedProgram ==
    <<wPROGRAM, idT, cSEMI, wVAR, idx, cCOLON, wINTEGER, cSEMI, wBEGIN,
      idx, cASSIGN, cMINUS, NumLex(7), wDIV, NumLex(2), cSEMI, wEND, cDOT>>

comment == <<"{", "x", "}">>
Edits ==
    { <<<<" ">>, <<>>>>,                        \* the blank is removed
      <<<<" ">>, <<" ", "\n">>>>,               \* a line break is inserted
      <<<<" ">>, <<" ">> \o comment>>,          \* a comment is inserted
      <<comment, <<>>>>,                        \* the comment is removed
      <<<<" ">> \o comment \o <<" ">>, <<" ", " ">>>> }

EditedSources ==
    { [prog |-> EditedProgram, gap |-> g, sep1 |-> e[1], sep2 |-> e[2]] :
        g \in 1..(Len(EditedProgram) - 1), e \in Edits }

Sources ==
    {Plain(p) : p \in ChainPrograms \cup StatementPrograms \cup SinglePrograms}
        \cup EditedSources

\* main is run again, on the second text of an edited source
Rerun ==
    /\ run = 1 /\ src.gap # 0
    /\ main_pc = "end" \/ exc # "none"
    /\ run' = 2
    /\ saved' = [done |-> TRUE, exc |-> exc, main_pc |-> main_pc, toks |-> toks,
                 tree |-> tree, GLOBAL_SCOPE |-> GLOBAL_SCOPE]
    /\ text' = Text2(src)
    /\ lexer' = [pos |-> 0, current_char |-> None]
    /\ lpc' = "unborn"
    /\ ret' = NoToken
    /\ calls' = 0
    /\ toks' = <<>>
    /\ current_token' = NoToken
    /\ ctl' = <<>>
    /\ vals' = <<>>
    /\ nextId' = 1
    /\ tree' = PyNone
    /\ main_pc' = "Lexer"
    /\ symtab' = <<>>
    /\ sctl' = <<>>
    /\ GLOBAL_SCOPE' = <<>>
    /\ ictl' = <<>>
    /\ ivals' = <<>>
    /\ assigned' = <<>>
    /\ exc' = "none"
    /\ UNCHANGED src

Init ==
    /\ src \in Sources
    /\ run = 1
    /\ saved = NoSaved
    /\ InitRun(Text1(src))

main ==
    \/ Lexer_init
    \/ main_SymbolTableBuilder
    \/ main_Interpreter
    \/ main_print

Next ==
    \/ main
    \/ get_next_token
    \/ Parser
    \/ SymbolTableBuilder
    \/ Interpreter
    \/ Rerun

Spec == Init /\ [][Next]_vars

-----------------------------------------------------------------------------
(* What the claims are stated with *)

RunOver == main_pc = "end" \/ exc # "none"

RECURSIVE VarNames(_)
\* the names of the Var nodes of a statement or an expression
VarNames(n) ==
    IF n.node = "Var" THEN {n.value}
    ELSE IF n.node = "Assign" THEN {n.left.value} \cup VarNames(n.right)
    ELSE IF n.node = "BinOp" THEN VarNames(n.left) \cup VarNames(n.right)
    ELSE IF n.node = "UnaryOp" THEN VarNames(n.expr)
    ELSE IF n.node = "Compound"
    THEN UNION {VarNames(n.children[i]) : i \in 1..Len(n.children)}
    ELSE {}

\* the names the VarDecls of a block declare
DeclaredNames(block) ==
    { block.declarations[i].var_node.value :
        i \in { j \in 1..Len(block.declarations) :
                  block.declarations[j].node = "VarDecl" } }

\* the names the main body uses and no VarDecl of the program declares
Undeclared(t) ==
    VarNames(t.block.compound_statement) \ DeclaredNames(t.block)

MainStatements == tree.block.compound_statement.children

\* C1: a parsed program whose main body names a variable that has no VarDecl
\* never gets past the SymbolTableBuilder pass: the pass goes on until it
\* raises NameError, no Assign is evaluated and GLOBAL_SCOPE gets no binding.
C1_UndeclaredIsRejectedStatically ==
    (tree # PyNone /\ Undeclared(tree) # {}) =>
        /\ main_pc \in {"SymbolTableBuilder", "visit"}
        /\ exc \in {"none", "NameError"}
        /\ (main_pc = "visit" /\ exc = "none" =>
                sctl # <<>> /\ ENABLED SymbolTableBuilder)
        /\ assigned = <<>>
        /\ DOMAIN GLOBAL_SCOPE = {}

\* the pass has raised on a reference that follows a valid assignment
C1_Witness ==
    /\ tree # PyNone /\ Undeclared(tree) # {}
    /\ exc = "NameError" /\ main_pc = "visit"
    /\ Len(MainStatements) >= 2
    /\ MainStatements[1].node = "Assign"
    /\ VarNames(MainStatements[1]) \subseteq DeclaredNames(tree.block)

\* C2: the scan of a comment stops at the end of the text: the position of
\* the lexer never goes past the length of the text.
C2_CommentScanStopsAtEndOfText ==
    lpc # "unborn" => lexer.pos <= Len(text)

EofReturned == \E i \in 1..Len(toks) : toks[i].type = EOF

\* C3: a Lexer can be built on every text, the empty one too; and once
\* get_next_token has returned EOF every later call returns EOF and the
\* lexer stays where it was, at the end of the text.
C3_LexerOnEveryTextAndEofStays ==
    /\ exc # "IndexError"
    /\ \A i \in 1..Len(toks) : \A j \in i..Len(toks) :
           toks[i].type = EOF => toks[j].type = EOF
    /\ EofReturned => lexer = [pos |-> Len(text), current_char |-> None]

\* C4: a program is accepted only if each VAR is followed by a declaration,
\* that is by an ID.
C4_VarSectionHasADeclaration ==
    tree # PyNone =>
        \A i \in 1..(Len(toks) - 1) : toks[i].type = VAR => toks[i + 1].type = ID

SameOutcome ==
    /\ toks = saved.toks
    /\ tree = saved.tree
    /\ GLOBAL_SCOPE = saved.GLOBAL_SCOPE
    /\ exc = saved.exc
    /\ main_pc = saved.main_pc

SecondRunOver == run = 2 /\ RunOver /\ saved.tree # PyNone

\* nothing is left between a keyword or identifier and a following keyword,
\* identifier or number
Fuses(s) ==
    /\ s.sep2 = <<>>
    /\ isalpha(s.prog[s.gap][1])
    /\ isalnum(s.prog[s.gap + 1][1])

\* C5 as stated: whatever blanks or comment are put in or taken out between
\* two neighbouring tokens of an accepted program, the tokens, the AST and
\* the final environment are the same.
C5_SeparatorsAreTransparent ==
    SecondRunOver => SameOutcome

\* C5 amended: the same, unless the change leaves nothing between a keyword
\* or identifier and a following keyword, identifier or number.
C5_SeparatorsAreTransparentUnlessFused ==
    (SecondRunOver /\ ~Fuses(src)) => SameOutcome

\* the blank between a number and the keyword after it has been removed
C5_Witness ==
    /\ SecondRunOver /\ main_pc = "end"
    /\ src.sep1 = <<" ">> /\ src.sep2 = <<>>
    /\ isdigit(src.prog[src.gap][1])
    /\ isalpha(src.prog[src.gap + 1][1])
    /\ SameOutcome

DivisionPending ==
    /\ exc = "none" /\ main_pc = "interpret"
    /\ ictl # <<>> /\ Head(ictl).op = "BinOp_apply"
    /\ Head(ictl).type \in {INTEGER_DIV, FLOAT_DIV}

\* C6: a DIV or / whose right operand is zero raises ZeroDivisionError and
\* leaves every binding, that of the assignment's target too, as it was;
\* after it nothing is evaluated or bound any more.
C6_DivisionByZeroStopsTheRun ==
    [][ /\ (DivisionPending /\ IsZero(ivals[1])) =>
              /\ exc' = "ZeroDivisionError"
              /\ UNCHANGED <<GLOBAL_SCOPE, assigned, ictl>>
        /\ exc = "ZeroDivisionError" =>
              \/ UNCHANGED <<GLOBAL_SCOPE, assigned, ictl, ivals, exc>>
              \/ run' # run ]_vars

\* a division by zero after one assignment and before another
C6_Witness ==
    /\ exc = "ZeroDivisionError"
    /\ assigned = << <<PyStr(ida), PyInt(5)>> >>
    /\ GLOBAL_SCOPE[PyStr(ida)] = PyInt(5)
    /\ \E i \in 1..Len(ictl) : ictl[i].op = "Assign_store"
    /\ ictl[Len(ictl)].op = "visit" /\ ictl[Len(ictl)].node.node = "Assign"

RECURSIVE Shape(_)
\* an expression without the identities of its nodes
Shape(n) ==
    IF n.node = "BinOp" THEN <<"BinOp", Shape(n.left), n.op.type, Shape(n.right)>>
    ELSE IF n.node = "UnaryOp" THEN <<"UnaryOp", n.op.type, Shape(n.expr)>>
    ELSE <<n.node, n.value>>

ExprLevel == {PLUS, MINUS}
TermLevel == {MUL, INTEGER_DIV, FLOAT_DIV}

\* the first assignment reads  ID := [sign] number op1 number op2 number
AssignAt == CHOOSE i \in 1..Len(toks) :
                toks[i].type = ASSIGN /\ \A j \in 1..(i - 1) : toks[j].type # ASSIGN
SignLen == IF toks[AssignAt + 1].type \in {PLUS, MINUS} THEN 1 ELSE 0
ChainAt == AssignAt + SignLen
IsChain ==
    /\ tree # PyNone
    /\ \E i \in 1..Len(toks) : toks[i].type = ASSIGN
    /\ Len(toks) >= ChainAt + 6
    /\ toks[ChainAt + 1].type = INTEGER_CONST
    /\ toks[ChainAt + 2].type \in ExprLevel \cup TermLevel
    /\ toks[ChainAt + 3].type = INTEGER_CONST
    /\ toks[ChainAt + 4].type \in ExprLevel \cup TermLevel
    /\ toks[ChainAt + 5].type = INTEGER_CONST
    /\ toks[ChainAt + 6].type \in {END, SEMI}

NumShape(token) == <<"Num", token.value>>
ChainFirst ==
    IF SignLen = 1
    THEN <<"UnaryOp", toks[AssignAt + 1].type, NumShape(toks[ChainAt + 1])>>
    ELSE NumShape(toks[ChainAt + 1])
ChainOp1 == toks[ChainAt + 2].type
ChainOp2 == toks[ChainAt + 4].type
\* op2 binds tighter than op1 only if op1 is + or - and op2 is *, / or DIV
ChainShape ==
    IF ChainOp1 \in ExprLevel /\ ChainOp2 \in TermLevel
    THEN <<"BinOp", ChainFirst, ChainOp1,
           <<"BinOp", NumShape(toks[ChainAt + 3]), ChainOp2,
             NumShape(toks[ChainAt + 5])>>>>
    ELSE <<"BinOp",
           <<"BinOp", ChainFirst, ChainOp1, NumShape(toks[ChainAt + 3])>>,
           ChainOp2, NumShape(toks[ChainAt + 5])>>

Ten == PyInt(10)
Three == PyInt(3)
Two == PyInt(2)
Five == PyInt(5)

\* C7: a chain  a op1 b op2 c  is parsed as (a op1 b) op2 c, unless op2 is
\* of the term level and op1 of the expr level; a sign stays with the first
\* operand; and 10 - 3 - 2 gives 5.
C7_ChainsNestToTheLeft ==
    IsChain =>
        /\ MainStatements[1].node = "Assign"
        /\ Shape(MainStatements[1].right) = ChainShape
        /\ (/\ main_pc = "end"
            /\ ChainShape = <<"BinOp", <<"BinOp", <<"Num", Ten>>, MINUS,
                                         <<"Num", Three>>>>,
                              MINUS, <<"Num", Two>>>>)
              => GLOBAL_SCOPE[MainStatements[1].left.value] = Five

\* 10 - 3 - 2 has been evaluated
C7_Witness ==
    /\ IsChain /\ main_pc = "end"
    /\ ChainOp1 = MINUS /\ ChainOp2 = MINUS
    /\ toks[ChainAt + 1].value = Ten
    /\ GLOBAL_SCOPE[PyStr(ida)] = Five

VarPending ==
    /\ exc = "none" /\ main_pc = "interpret"
    /\ ictl # <<>> /\ Head(ictl).op = "visit" /\ Head(ictl).node.node = "Var"

AssignedNames == {assigned[i][1] : i \in 1..Len(assigned)}
LastAssigned(name) ==
    LET last == CHOOSE i \in 1..Len(assigned) :
                    /\ assigned[i][1] = name
                    /\ \A j \in (i + 1)..Len(assigned) : assigned[j][1] # name
    IN  assigned[last][2]

\* C8: the evaluation of a Var raises NameError if no Assign to its name has
\* been completed in this run, and otherwise returns the value of the last
\* such Assign, 0 included.
C8_VarReadsTheLastAssignment ==
    [][ VarPending =>
          IF Head(ictl).node.value \in AssignedNames
          THEN /\ exc' = "none"
               /\ ivals' = <<LastAssigned(Head(ictl).node.value)>> \o ivals
          ELSE exc' = "NameError" /\ GLOBAL_SCOPE' = GLOBAL_SCOPE ]_vars

\* a := 0 ; b := a  has been evaluated: the value 0 was read back
C8_Witness ==
    /\ main_pc = "end"
    /\ assigned = << <<PyStr(ida), PyInt(0)>>, <<PyStr(idb), PyInt(0)>> >>
    /\ MainStatements[2].right.node = "Var"

ParseCheckPending == ParseAt("parse_check")

\* C9: parse returns a tree only with EOF as the token after the program's
\* closing DOT; with any other token there it raises and returns no tree.
C9_NothingFollowsTheProgram ==
    [][ /\ tree' # PyNone =>
              /\ current_token'.type = EOF
              /\ toks'[Len(toks')].type = EOF
              /\ toks'[Len(toks') - 1].type = DOT
        /\ (ParseCheckPending /\ current_token.type # EOF) =>
              exc' = "Invalid Syntax" /\ tree' = PyNone ]_vars

\* a token after the closing DOT has been refused
C9_Witness ==
    /\ exc = "Invalid Syntax"
    /\ ctl # <<>> /\ Head(ctl).op = "parse_check"
    /\ toks[Len(toks) - 1].type = DOT
    /\ tree = PyNone

EatPending == ParseAt("eat")

\* C10: eat with the current token of the asked kind calls get_next_token
\* once, and the token it returns becomes the current token; otherwise eat
\* raises, the current token stays and the lexer is not called; after that
\* no token is asked for and no tree is returned.
C10_EatAdvancesOrRaises ==
    [][ /\ (EatPending /\ current_token.type = Head(ctl).type) =>
              /\ calls' = calls + 1
              /\ lpc' = "scan"
              /\ exc' = "none"
              /\ ctl' = <<F("token_ret")>> \o Tail(ctl)
        /\ (lpc = "ret" /\ exc = "none") =>
              current_token' = ret /\ calls' = calls /\ ctl' = Tail(ctl)
        /\ (EatPending /\ current_token.type # Head(ctl).type) =>
              /\ exc' = "Invalid Syntax"
              /\ current_token' = current_token
              /\ calls' = calls /\ lpc' = lpc /\ lexer' = lexer
              /\ tree' = PyNone
        /\ exc = "Invalid Syntax" =>
              \/ calls' = calls /\ toks' = toks /\ tree' = PyNone
              \/ run' # run ]_vars

\* eat has refused a token after others were consumed
C10_Witness ==
    /\ exc = "Invalid Syntax"
    /\ ctl # <<>> /\ Head(ctl).op = "eat"
    /\ current_token.type # Head(ctl).type
    /\ calls > 3
    /\ tree = PyNone

\* the nodes a node refers to, one entry for each reference
Children(n) ==
    IF n.node = "Program" THEN <<n.block>>
    ELSE IF n.node = "Block" THEN n.declarations \o <<n.compound_statement>>
    ELSE IF n.node = "VarDecl" THEN <<n.var_node, n.type_node>>
    ELSE IF n.node = "ProcedureDecl" THEN <<n.block_node>>
    ELSE IF n.node = "Compound" THEN n.children
    ELSE IF n.node \in {"Assign", "BinOp"} THEN <<n.left, n.right>>
    ELSE IF n.node = "UnaryOp" THEN <<n.expr>>
    ELSE <<>>

RECURSIVE Concat(_)
Concat(seqs) == IF seqs = <<>> THEN <<>> ELSE Head(seqs) \o Concat(Tail(seqs))

RECURSIVE Objects(_)
\* the identity of a node and of every node below it, one entry for each
\* path that leads to the object
Objects(n) ==
    <<n.id>> \o Concat([i \in 1..Len(Children(n)) |-> Objects(Children(n)[i])])

\* C11: in the tree that parse returns no object is reached along two paths:
\* each node is referred to by one parent only, the VarDecls of
\* a, b : INTEGER  having a Type node each.
C11_EachNodeHasOneParent ==
    tree # PyNone =>
        LET objects == Objects(tree)
        IN  \A i, j \in 1..Len(objects) : objects[i] = objects[j] => i = j

RECURSIVE AssignsOf(_)
\* the Assign nodes of a statement in the order of their evaluation
AssignsOf(n) ==
    IF n.node = "Assign" THEN <<n>>
    ELSE IF n.node = "Compound"
    THEN Concat([i \in 1..Len(n.children) |-> AssignsOf(n.children[i])])
    ELSE <<>>

RECURSIVE ValueOf(_, _)
\* the value of an expression in an environment
ValueOf(n, env) ==
    IF n.node = "Num" THEN n.value
    ELSE IF n.node = "Var" THEN env[n.value]
    ELSE IF n.node = "UnaryOp" THEN UnaryOp_result(n.op.type, ValueOf(n.expr, env))
    ELSE BinOp_result(n.op.type, ValueOf(n.left, env), ValueOf(n.right, env)).value

StorePending == IntOp("Assign_store")

\* the Assign whose evaluation is about to be completed
PendingAssign == AssignsOf(tree.block.compound_statement)[Len(assigned) + 1]

\* C12: GLOBAL_SCOPE is empty when interpret starts; the step that completes
\* an Assign sets the binding of its target to the value of its right-hand
\* side and leaves every other binding as it was; no other step of the
\* interpreter changes GLOBAL_SCOPE.
C12_OnlyAssignChangesTheEnvironment ==
    [][ /\ (main_pc # "interpret" /\ main_pc' = "interpret") =>
              GLOBAL_SCOPE' = <<>>
        /\ StorePending =>
              /\ DOMAIN GLOBAL_SCOPE' =
                     DOMAIN GLOBAL_SCOPE \cup {PendingAssign.left.value}
              /\ GLOBAL_SCOPE'[PendingAssign.left.value] =
                     ValueOf(PendingAssign.right, GLOBAL_SCOPE)
              /\ \A k \in DOMAIN GLOBAL_SCOPE \ {PendingAssign.left.value} :
                     GLOBAL_SCOPE'[k] = GLOBAL_SCOPE[k]
        /\ (main_pc = "interpret" /\ ~StorePending) =>
              GLOBAL_SCOPE' = GLOBAL_SCOPE \/ run' # run ]_vars

\* a := 1 ; b := a ; a := a + 1  has been evaluated
C12_Witness ==
    /\ main_pc = "end"
    /\ Len(assigned) = 3
    /\ DOMAIN GLOBAL_SCOPE = {PyStr(ida), PyStr(idb)}
    /\ GLOBAL_SCOPE[PyStr(ida)] = PyInt(2)
    /\ GLOBAL_SCOPE[PyStr(idb)] = PyInt(1)

\* the ProcedureDecls of the main block
MainProcedures ==
    { tree.block.declarations[i] :
        i \in { j \in 1..Len(tree.block.declarations) :
                  tree.block.declarations[j].node = "ProcedureDecl" } }

\* the objects of the blocks of the procedures
ProcedureObjects ==
    UNION { {Objects(d.block_node)[i] : i \in 1..Len(Objects(d.block_node))} :
              d \in MainProcedures }

MainAssigns == AssignsOf(tree.block.compound_statement)

\* C13: no node of a procedure's block is ever visited by either pass: the
\* symbol table holds the built-in types and the names the main block
\* declares, the SymbolTableBuilder raises NameError only for a name of the
\* main body, and only Assigns of the main compound statement are evaluated
\* and bound.
C13_ProcedureBlocksAreNotVisited ==
    tree # PyNone =>
        LET inside == ProcedureObjects
        IN  /\ \A i \in 1..Len(sctl) : sctl[i].id \notin inside
            /\ \A i \in 1..Len(ictl) :
                   ictl[i].op = "visit" => ictl[i].node.id \notin inside
            /\ \A i \in 1..Len(symtab) :
                   symtab[i].name \in {PyStr(wINTEGER), PyStr(wREAL)}
                                          \cup DeclaredNames(tree.block)
            /\ (exc = "NameError" /\ main_pc = "visit") => Undeclared(tree) # {}
            /\ Len(assigned) <= Len(MainAssigns)
            /\ DOMAIN GLOBAL_SCOPE \subseteq
                   {MainAssigns[i].left.value : i \in 1..Len(MainAssigns)}

\* a run has ended on a program whose procedure declares and assigns a
\* name of its own
C13_Witness ==
    /\ tree # PyNone /\ main_pc = "end"
    /\ DOMAIN GLOBAL_SCOPE # {}
    /\ \E d \in MainProcedures :
           /\ DeclaredNames(d.block_node) \ DeclaredNames(tree.block) # {}
           /\ AssignsOf(d.block_node.compound_statement) # <<>>

=============================================================================
